---- MODULE Spec2Model ----
(***************************************************************************)
(* EmbeddingRetriever (server/lib/embedding_retriever.py): a TF-IDF index  *)
(* over a document store, with query expansion, cosine scoring, context    *)
(* boosting and top-k ranking.                                             *)
(*                                                                         *)
(* Texts are strings; the substring, replace, lower-casing and tokenizing  *)
(* operators work on their characters.  Floating-point quantities are      *)
(* fixed-point integers: weights and cosine scores in units of 1/10000,    *)
(* boosted scores in units of 1/10^8 (the exact product of a score and a   *)
(* boost factor).                                                          *)
(***************************************************************************)
EXTENDS Integers, Sequences, FiniteSets, TLC

VARIABLES documents, embeddings, vectorizer, argsort_ties, last, pinned

vars == <<documents, embeddings, vectorizer, argsort_ties, last, pinned>>

(***************************************************************************)
(* Bounds of the model.                                                    *)
(***************************************************************************)
MaxDocs == 3

MaxBatch == 2

MaxK == 2

(***************************************************************************)
(* Characters and strings.                                                 *)
(***************************************************************************)
UpperCase == "ABCDEFGHIJKLMNOPQRSTUVWXYZ"

LowerCase == "abcdefghijklmnopqrstuvwxyz"

Digits == "0123456789"

CharAt(t, i) == SubSeq(t, i, i)

IndexIn(alphabet, c) ==
    IF \E i \in 1..Len(alphabet) : CharAt(alphabet, i) = c
    THEN CHOOSE i \in 1..Len(alphabet) : CharAt(alphabet, i) = c
    ELSE 0

\* str.lower() on one character
LowerChar(c) ==
    LET i == IndexIn(UpperCase, c) IN IF i = 0 THEN c ELSE CharAt(LowerCase, i)

RECURSIVE LowerRange(_, _, _)
LowerRange(t, lo, hi) ==
    IF lo > hi THEN ""
    ELSE IF lo = hi THEN LowerChar(CharAt(t, lo))
    ELSE LET mid == (lo + hi) \div 2
         IN  LowerRange(t, lo, mid) \o LowerRange(t, mid + 1, hi)

\* str.lower()
Lower(t) == LowerRange(t, 1, Len(t))

\* Python's  p in t  on strings
Contains(t, p) ==
    \E i \in 1..(Len(t) - Len(p) + 1) : SubSeq(t, i, i + Len(p) - 1) = p

OccursAt(t, p, i) ==
    i + Len(p) - 1 <= Len(t) /\ SubSeq(t, i, i + Len(p) - 1) = p

\* the first occurrence of old at or after position from; 0 when none
NextOccurrence(t, old, from) ==
    LET S == {i \in from..Len(t) : OccursAt(t, old, i)}
    IN  IF S = {} THEN 0 ELSE CHOOSE i \in S : \A j \in S : i <= j

RECURSIVE ReplaceFrom(_, _, _, _)
ReplaceFrom(t, old, new, from) ==
    LET m == NextOccurrence(t, old, from)
    IN  IF m = 0 THEN SubSeq(t, from, Len(t))
        ELSE SubSeq(t, from, m - 1) \o new
                 \o ReplaceFrom(t, old, new, m + Len(old))

\* str.replace(old, new): every non-overlapping occurrence, left to right
\* (old is never empty here)
Replace(t, old, new) == ReplaceFrom(t, old, new, 1)

IsLetter(c) == IndexIn(LowerCase, c) # 0 \/ IndexIn(UpperCase, c) # 0

\* \w of the regular expression: letters, digits and the underscore
IsWordChar(c) == IsLetter(c) \/ IndexIn(Digits, c) # 0 \/ c = "_"

AllLetters(w) == \A i \in 1..Len(w) : IsLetter(CharAt(w, i))

(***************************************************************************)
(* The analyzer of the TfidfVectorizer configured in __init__:             *)
(* lowercase=True, token_pattern \b[A-Za-z]{2,}\b, stop_words='english',   *)
(* ngram_range=(1, 3).                                                     *)
(***************************************************************************)
\* The maximal runs of word characters, as (first, last) positions.
WordRuns(t) ==
    LET w == [i \in 1..Len(t) |-> IsWordChar(CharAt(t, i))]
        starts == {i \in 1..Len(t) : w[i] /\ (i = 1 \/ ~w[i - 1])}
        ends == {j \in 1..Len(t) : w[j] /\ (j = Len(t) \/ ~w[j + 1])}
    IN  {<<i, CHOOSE j \in ends : j >= i /\ \A e \in ends : e >= i => j <= e>> :
            i \in starts}

\* A maximal run of word characters is a token when it is all letters and
\* at least two long (the \b anchors rule out parts of a longer run).
TokenRuns(t) ==
    {r \in WordRuns(t) :
        r[2] - r[1] + 1 >= 2 /\ AllLetters(SubSeq(t, r[1], r[2]))}

\* re.findall(token_pattern, t): the tokens in order of position
Tokenize(t) ==
    LET runs == TokenRuns(t)
        nth(k) == CHOOSE r \in runs :
                      Cardinality({q \in runs : q[1] < r[1]}) = k - 1
    IN  [k \in 1..Cardinality(runs) |-> SubSeq(t, nth(k)[1], nth(k)[2])]

\* The members of the 'english' stop word list that the texts and the
\* expanded queries of this model can contain.
StopWords ==
    {"about", "all", "and", "are", "by", "co", "for", "from", "how", "in",
     "is", "of", "the", "what", "which", "with"}

RemoveStopWords(tokens) == SelectSeq(tokens, LAMBDA w : w \notin StopWords)

\* " ".join(tokens[i : i + n])
RECURSIVE JoinWords(_, _, _)
JoinWords(tokens, i, n) ==
    IF n = 1 THEN tokens[i]
    ELSE tokens[i] \o " " \o JoinWords(tokens, i + 1, n - 1)

NGramsOfLength(tokens, n) ==
    IF Len(tokens) < n THEN <<>>
    ELSE [i \in 1..(Len(tokens) - n + 1) |-> JoinWords(tokens, i, n)]

\* _word_ngrams for ngram_range (1, 3): the 1-grams, then 2-grams, then 3-grams
WordNGrams(tokens) ==
    NGramsOfLength(tokens, 1) \o NGramsOfLength(tokens, 2)
        \o NGramsOfLength(tokens, 3)

\* build_analyzer(): preprocess, tokenize, drop stop words, form n-grams
Analyze(t) == WordNGrams(RemoveStopWords(Tokenize(Lower(t))))

(***************************************************************************)
(* _enhance_query_for_retrieval                                            *)
(***************************************************************************)
state_mapping ==
    << <<"colorado", "CO">>, <<"co", "CO">>, <<"california", "CA">>,
       <<"ca", "CA">>, <<"alabama", "AL">>, <<"al", "AL">>,
       <<"texas", "TX">>, <<"tx", "TX">>, <<"florida", "FL">>,
       <<"fl", "FL">>, <<"new york", "NY">>, <<"ny", "NY">> >>

health_mapping ==
    << <<"obesity", "OBESITY obesity obese overweight">>,
       <<"diabetes", "DIABETES diabetes diabetic">>,
       <<"heart disease", "CHD coronary heart disease">>,
       <<"stroke", "STROKE cerebrovascular">>,
       <<"depression", "MHLTH mental health depression">>,
       <<"asthma", "CASTHMA asthma respiratory">> >>

RECURSIVE ApplyStateMappings(_, _)
ApplyStateMappings(processed, i) ==
    IF i > Len(state_mapping) THEN processed
    ELSE LET state_name == state_mapping[i][1]
             abbrev == state_mapping[i][2]
         IN  ApplyStateMappings(
                 IF Contains(processed, state_name)
                 THEN Replace(processed, state_name,
                              abbrev \o " " \o state_name)
                 ELSE processed,
                 i + 1)

RECURSIVE ApplyHealthMappings(_, _)
ApplyHealthMappings(processed, i) ==
    IF i > Len(health_mapping) THEN processed
    ELSE LET condition == health_mapping[i][1]
             expanded == health_mapping[i][2]
         IN  ApplyHealthMappings(
                 IF Contains(processed, condition)
                 THEN Replace(processed, condition, expanded)
                 ELSE processed,
                 i + 1)

AddContextKeywords(processed) ==
    LET p1 == IF Contains(processed, "county")
              THEN processed \o " CountyName CountyFIPS" ELSE processed
        p2 == IF Contains(p1, "state")
              THEN p1 \o " StateAbbr StateName" ELSE p1
    IN  IF \E word \in {"data", "information", "statistics"} :
               Contains(p2, word)
        THEN p2 \o " TotalPopulation Data_Value Measure" ELSE p2

enhance_query_for_retrieval(query) ==
    AddContextKeywords(
        ApplyHealthMappings(ApplyStateMappings(Lower(query), 1), 1))

(***************************************************************************)
(* The universe of the model: document contents and queries.               *)
(***************************************************************************)
DocTexts == {"CO obesity", "TX_1 obesity", "TX area diabetes", "the 12"}

Queries == {"Obesity in Colorado", "tx county obesity", ""}

Range(f) == {f[i] : i \in DOMAIN f}

RECURSIVE SumOver(_, _)
SumOver(f, S) ==
    IF S = {} THEN 0
    ELSE LET x == CHOOSE y \in S : TRUE IN f[x] + SumOver(f, S \ {x})

(***************************************************************************)
(* The analysis of each text of the universe, computed once.               *)
(***************************************************************************)
LowerDoc == [t \in DocTexts |-> Lower(t)]

LowerQuery == [q \in Queries |-> Lower(q)]

ProcessedQuery == [q \in Queries |-> enhance_query_for_retrieval(q)]

\* the analyzer's n-grams of every text the vectorizer is given
Analyzed ==
    [t \in DocTexts \cup {ProcessedQuery[q] : q \in Queries} |-> Analyze(t)]

(***************************************************************************)
(* Fixed-point arithmetic for the floating-point quantities.               *)
(***************************************************************************)
\* 1000 * ln(n), rounded, for n = 1..12
LnMilliTable ==
    <<0, 693, 1099, 1386, 1609, 1792, 1946, 2079, 2197, 2303, 2398, 2485>>

LnMilli(n) == LnMilliTable[n]

RECURSIVE ISqrtBetween(_, _, _)
ISqrtBetween(n, lo, hi) ==
    IF lo >= hi THEN lo
    ELSE LET mid == (lo + hi + 1) \div 2
         IN  IF mid * mid <= n THEN ISqrtBetween(n, mid, hi)
             ELSE ISqrtBetween(n, lo, mid - 1)

\* floor of the square root
ISqrt(n) == ISqrtBetween(n, 0, 46340)

(***************************************************************************)
(* TfidfVectorizer(max_features, stop_words='english', ngram_range=(1,3),  *)
(* min_df=1, max_df=0.95, sublinear_tf=True), norm 'l2', smooth idf.       *)
(***************************************************************************)
max_features == 5000

min_df == 1

\* max_df = 0.95, in hundredths
max_df_percent == 95

\* self.embeddings = None
None == [exists |-> FALSE, rows |-> <<>>]

Unfitted == [fitted |-> FALSE, vocabulary |-> {}, idf |-> [t \in {} |-> 0]]

TermCount(ngrams, term) ==
    Cardinality({j \in 1..Len(ngrams) : ngrams[j] = term})

DocumentFrequency(analyzed, term) ==
    Cardinality({i \in 1..Len(analyzed) : TermCount(analyzed[i], term) > 0})

\* _limit_features with a limit: the max_features terms of highest total
\* count (only reached when more than max_features terms survive pruning)
TopFeatures(analyzed, kept) ==
    LET total(t) == SumOver([i \in 1..Len(analyzed) |->
                                TermCount(analyzed[i], t)],
                            1..Len(analyzed))
    IN  CHOOSE S \in SUBSET kept :
            /\ Cardinality(S) = max_features
            /\ \A t \in S, u \in kept \ S : total(t) >= total(u)

\* the L2 normalisation of one row (a zero row stays zero)
Normalize(row) ==
    LET norm == ISqrt(SumOver([t \in DOMAIN row |-> row[t] * row[t]],
                              DOMAIN row))
    IN  IF norm = 0 THEN row
        ELSE [t \in DOMAIN row |-> (row[t] * 10000) \div norm]

\* One tf-idf row: sublinear tf (1 + ln count) times idf, then normalised
TfidfRow(ngrams, vocabulary, idf) ==
    Normalize([t \in vocabulary |->
        LET count == TermCount(ngrams, t)
        IN  IF count = 0 THEN 0
            ELSE ((1000 + LnMilli(count)) * idf[t]) \div 1000])

\* TfidfTransformer: the smoothed idf of every kept term and the matrix of
\* normalised rows, one per document of the corpus
TfidfFitted(analyzed, df, vocabulary, idf) ==
    [raised |-> FALSE, error |-> "",
     vectorizer |-> [fitted |-> TRUE, vocabulary |-> vocabulary, idf |-> idf],
     X |-> [i \in 1..Len(analyzed) |-> TfidfRow(analyzed[i], vocabulary, idf)]]

SmoothIdf(n_doc, df, vocabulary) ==
    [t \in vocabulary |-> LnMilli(1 + n_doc) - LnMilli(1 + df[t]) + 1000]

FitFailure(vec, msg) ==
    [raised |-> TRUE, error |-> msg, vectorizer |-> vec, X |-> <<>>]

\* _limit_features: the terms with min_df <= df <= max_df * n_doc, cut to
\* max_features
LimitFeatures(vec, analyzed, df, kept) ==
    IF kept = {}
    THEN FitFailure(vec, "ValueError: After pruning, no terms remain")
    ELSE IF Cardinality(kept) > max_features
    THEN TfidfFitted(analyzed, df, TopFeatures(analyzed, kept),
                     SmoothIdf(Len(analyzed), df, TopFeatures(analyzed, kept)))
    ELSE TfidfFitted(analyzed, df, kept, SmoothIdf(Len(analyzed), df, kept))

\* CountVectorizer.fit_transform after _count_vocab: df maps every term of
\* the corpus to its document frequency
FitCounted(vec, analyzed, df) ==
    IF DOMAIN df = {} THEN FitFailure(vec, "ValueError: empty vocabulary")
    ELSE IF max_df_percent * Len(analyzed) < 100 * min_df
    THEN FitFailure(vec,
             "ValueError: max_df corresponds to < documents than min_df")
    ELSE LimitFeatures(vec, analyzed, df,
             {t \in DOMAIN df :
                 /\ 100 * df[t] <= max_df_percent * Len(analyzed)
                 /\ df[t] >= min_df})

FitAnalyzed(vec, analyzed) ==
    FitCounted(vec, analyzed,
        [t \in UNION {Range(analyzed[i]) : i \in 1..Len(analyzed)} |->
            DocumentFrequency(analyzed, t)])

\* TfidfVectorizer.fit_transform(raw_documents): the vocabulary and idf are
\* rebuilt from raw_documents alone; on a ValueError the vectorizer keeps
\* its previous fitted state.
FitTransform(vec, raw_documents) ==
    FitAnalyzed(vec,
        [i \in 1..Len(raw_documents) |-> Analyzed[raw_documents[i]]])

\* Transform that also learns the terms of the text it is given
TransformLearning(vec, text) ==
    IF ~vec.fitted
    THEN [raised |-> TRUE, error |-> "NotFittedError", vectorizer |-> vec,
          X |-> <<>>]
    ELSE [raised |-> FALSE, error |-> "",
          vectorizer |->
              [vec EXCEPT
                  !.vocabulary = vec.vocabulary \cup Range(Analyzed[text]),
                  !.idf = [t \in vec.vocabulary \cup Range(Analyzed[text]) |->
                              IF t \in vec.vocabulary THEN vec.idf[t]
                              ELSE 1000]],
          X |-> <<TfidfRow(Analyzed[text], vec.vocabulary, vec.idf)>>]

\* TfidfVectorizer.transform([text]): the vocabulary is left as it is
Transform(vec, text) ==
    IF ~vec.fitted
    THEN [raised |-> TRUE, error |-> "NotFittedError", vectorizer |-> vec,
          X |-> <<>>]
    ELSE [raised |-> FALSE, error |-> "", vectorizer |-> vec,
          X |-> <<TfidfRow(Analyzed[text], vec.vocabulary, vec.idf)>>]

\* cosine_similarity(query_embedding, embeddings).flatten(): one score per
\* row of the matrix (the rows are unit vectors or zero)
CosineSimilarity(query_row, matrix) ==
    [i \in 1..Len(matrix) |->
        SumOver([t \in DOMAIN query_row |-> query_row[t] * matrix[i][t]],
                DOMAIN query_row) \div 10000]

(***************************************************************************)
(* _apply_context_boost.  A boost factor is in units of 1/10000.           *)
(***************************************************************************)
states ==
    <<"colorado", "california", "alabama", "texas", "florida",
      "co", "ca", "al", "tx", "fl">>

health_terms ==
    <<"obesity", "diabetes", "heart", "stroke", "depression", "asthma">>

location_terms == <<"county", "state", "region", "area">>

\* f * (num/10)^n, one multiplication at a time
RECURSIVE TimesTenths(_, _, _)
TimesTenths(f, num, n) ==
    IF n = 0 THEN f ELSE TimesTenths((f * num) \div 10, num, n - 1)

\* the terms of a list present in both the query and the document
Matches(terms, query_lower, doc_content) ==
    {i \in 1..Len(terms) :
        Contains(query_lower, terms[i]) /\ Contains(doc_content, terms[i])}

\* StateBoost without the test of the document: 1.5 per state term of the
\* query
StateBoostQueryOnly(f, query_lower, doc_content) ==
    TimesTenths(f, 15,
        Cardinality({i \in 1..Len(states) : Contains(query_lower, states[i])}))

\* "Strong boost for exact state matches": 1.5 per matching state term
StateBoost(f, query_lower, doc_content) ==
    TimesTenths(f, 15, Cardinality(Matches(states, query_lower, doc_content)))

\* "Boost for health measure matches": 1.3 per matching health term
HealthBoost(f, query_lower, doc_content) ==
    TimesTenths(f, 13,
                Cardinality(Matches(health_terms, query_lower, doc_content)))

\* "Boost for location context": 1.2 once
LocationBoost(f, query_lower, doc_content) ==
    IF /\ \E i \in 1..Len(location_terms) :
               Contains(query_lower, location_terms[i])
       /\ \E i \in 1..Len(location_terms) :
               Contains(doc_content, location_terms[i])
    THEN TimesTenths(f, 12, 1) ELSE f

\* "Penalty for irrelevant matches": 0.7 once
CountyPenalty(f, query_lower, doc_content) ==
    IF Contains(query_lower, "county") /\ ~Contains(doc_content, "county")
    THEN TimesTenths(f, 7, 1) ELSE f

boost_factor(query_lower, doc_content) ==
    CountyPenalty(
        LocationBoost(
            HealthBoost(
                StateBoost(10000, query_lower, doc_content),
                query_lower, doc_content),
            query_lower, doc_content),
        query_lower, doc_content)

BoostFactorOf ==
    [q \in Queries |-> [t \in DocTexts |-> boost_factor(LowerQuery[q], LowerDoc[t])]]

\* boosted = similarities.copy(); boosted[i] *= boost_factor for every
\* document of the store; an index past the end of the vector raises.
\* Boosted scores are in units of 1/10^8.
apply_context_boost(docs, similarities, query) ==
    IF Len(docs) > Len(similarities)
    THEN [raised |-> TRUE, error |-> "IndexError", boosted |-> <<>>]
    ELSE [raised |-> FALSE, error |-> "",
          boosted |-> [i \in 1..Len(similarities) |->
                          IF i <= Len(docs)
                          THEN similarities[i] * BoostFactorOf[query][docs[i]]
                          ELSE similarities[i] * 10000]]

(***************************************************************************)
(* retrieve                                                                *)
(***************************************************************************)
\* ndarray.argsort(): the indices in ascending order of value.  The default
\* sort is not stable: the order of equal values is the build's choice,
\* here ascending index ("by_index") or descending index ("reversed").
ArgSort(values, ties) ==
    LET before(j, i) ==
            \/ values[j] < values[i]
            \/ /\ values[j] = values[i]
               /\ IF ties = "by_index" THEN j < i ELSE j > i
        rank(i) == Cardinality({j \in 1..Len(values) : before(j, i)})
    IN  [p \in 1..Len(values) |->
            CHOOSE i \in 1..Len(values) : rank(i) = p - 1]

Reverse(seq) == [i \in 1..Len(seq) |-> seq[Len(seq) + 1 - i]]

\* seq[-k:] of Python: for k = 0 this is seq[0:], the whole sequence
LastK(seq, k) ==
    LET n == Len(seq)
        first == IF k = 0 THEN 1
                 ELSE IF k > 0 THEN (IF n - k > 0 THEN n - k ELSE 0) + 1
                 ELSE (IF -k < n THEN -k ELSE n) + 1
    IN  SubSeq(seq, first, n)

\* TopIndices without the reversal [::-1]
TopIndicesAscending(boosted, k, ties) == LastK(ArgSort(boosted, ties), k)

\* boosted_similarities.argsort()[-k:][::-1]
TopIndices(boosted, k, ties) == Reverse(LastK(ArgSort(boosted, ties), k))

\* NoDocumentsLoaded without the test of self.embeddings
NoDocumentsLoadedStoreOnly(docs, emb) == docs = <<>>

\* if not self.documents or self.embeddings is None
NoDocumentsLoaded(docs, emb) == docs = <<>> \/ ~emb.exists

\* KeepResult with >= 0 in the place of > 0
KeepResultNonNegative(docs, boosted, idx) ==
    idx <= Len(docs) /\ boosted[idx] >= 0

\* if idx < len(self.documents) and boosted_similarities[idx] > 0
KeepResult(docs, boosted, idx) == idx <= Len(docs) /\ boosted[idx] > 0

\* what a call that returns [] before vectorizing gives
Quiet(self) ==
    [self |-> self, raised |-> FALSE, error |-> "", results |-> <<>>,
     similarities |-> <<>>, boosted |-> <<>>, vectorized |-> FALSE]

\* results.append((self.documents[idx], float(boosted_similarities[idx])))
\* for the kept indices, each pair with the store index it came from
Results(self, similarities, boosted, kept) ==
    [self |-> self, raised |-> FALSE, error |-> "",
     results |-> [i \in 1..Len(kept) |->
                     [idx |-> kept[i], doc |-> self.documents[kept[i]],
                      score |-> boosted[kept[i]]]],
     similarities |-> similarities, boosted |-> boosted, vectorized |-> TRUE]

\* top_indices and the loop over them
Ranked(self, k, ties, similarities, boost) ==
    IF boost.raised
    THEN [Quiet(self) EXCEPT !.raised = TRUE, !.error = boost.error,
                             !.vectorized = TRUE,
                             !.similarities = similarities]
    ELSE Results(self, similarities, boost.boosted,
                 SelectSeq(TopIndices(boost.boosted, k, ties),
                           LAMBDA idx : KeepResult(self.documents,
                                                   boost.boosted, idx)))

\* similarities and boosted_similarities
Scored(self, query, k, ties, query_embedding) ==
    IF query_embedding.raised
    THEN [Quiet(self) EXCEPT !.raised = TRUE, !.error = query_embedding.error,
                             !.vectorized = TRUE]
    ELSE Ranked([self EXCEPT !.vectorizer = query_embedding.vectorizer],
                k, ties,
                CosineSimilarity(query_embedding.X[1], self.embeddings.rows),
                apply_context_boost(
                    self.documents,
                    CosineSimilarity(query_embedding.X[1],
                                     self.embeddings.rows),
                    query))

\* retrieve(self, query, k): the object after the call and what the call gave
Retrieve(self, query, k, ties) ==
    IF NoDocumentsLoaded(self.documents, self.embeddings) THEN Quiet(self)
    ELSE Scored(self, query, k, ties,
                Transform(self.vectorizer, ProcessedQuery[query]))

(***************************************************************************)
(* add_documents                                                           *)
(***************************************************************************)
\* the texts handed to fit_transform: the batch while self.embeddings is
\* None, otherwise the contents of the whole store
FitInput(emb, texts, all_texts) == IF ~emb.exists THEN texts ELSE all_texts

\* self.embeddings = self.vectorizer.fit_transform(...): a fit that raises
\* leaves the assignment undone
AssignEmbeddings(self, fit) ==
    IF fit.raised
    THEN [self |-> self, raised |-> TRUE, error |-> fit.error]
    ELSE [self |-> [self EXCEPT !.embeddings = [exists |-> TRUE,
                                                rows |-> fit.X],
                                !.vectorizer = fit.vectorizer],
          raised |-> FALSE, error |-> ""]

\* self.documents.extend(documents)
Extend(self, batch) == [self EXCEPT !.documents = self.documents \o batch]

\* add_documents(self, batch): the store is extended first, then the
\* vectorizer is fitted
AddDocumentsTo(self, batch) ==
    AssignEmbeddings(
        Extend(self, batch),
        FitTransform(self.vectorizer,
                     FitInput(self.embeddings, batch,
                              Extend(self, batch).documents)))

(***************************************************************************)
(* The state machine: one retriever object and its callers' operations.    *)
(* Two history variables record what the calls did.  last is the latest    *)
(* call: its arguments, the object before it and what it gave.  pinned is  *)
(* the first retrieve after the add_documents calls: its arguments, the    *)
(* object before it, what it gave (first), and what the latest repeat of   *)
(* the same call gave (again); phase tells whether a different retrieve    *)
(* came in between.  A behaviour keeps one of the two: Spec keeps last;    *)
(* SpecHistory keeps pinned and follows add_documents calls by retrieve    *)
(* calls.                                                                  *)
(***************************************************************************)
Self == [documents |-> documents, embeddings |-> embeddings,
         vectorizer |-> vectorizer]

Fresh == [documents |-> <<>>, embeddings |-> None, vectorizer |-> Unfitted]

Batches == UNION {[1..n -> DocTexts] : n \in 0..MaxBatch}

NoCall ==
    [op |-> "init", batch |-> <<>>, query |-> "", k |-> 0, raised |-> FALSE,
     error |-> "", results |-> <<>>, similarities |-> <<>>, boosted |-> <<>>,
     vectorized |-> FALSE, before |-> Fresh]

NoOutput == [raised |-> FALSE, results |-> <<>>]

Unpinned(mode) ==
    [mode |-> mode, query |-> "", k |-> 0, self |-> Fresh, phase |-> "none",
     first |-> NoOutput, again |-> NoOutput]

\* the record of a retrieve call in pinned
Pin(query, k, r) ==
    IF pinned.mode = "armed"
    THEN [mode |-> "set", query |-> query, k |-> k, self |-> Self,
          phase |-> "first",
          first |-> [raised |-> r.raised, results |-> r.results],
          again |-> [raised |-> r.raised, results |-> r.results]]
    ELSE IF pinned.mode = "set" /\ pinned.query = query /\ pinned.k = k
    THEN [pinned EXCEPT
             !.phase = IF pinned.phase = "first" THEN "first" ELSE "again",
             !.again = [raised |-> r.raised, results |-> r.results]]
    ELSE IF pinned.mode = "set" /\ pinned.phase = "first"
    THEN [pinned EXCEPT !.phase = "between"]
    ELSE pinned

\* __init__
Init ==
    /\ documents = <<>>
    /\ embeddings = None
    /\ vectorizer = Unfitted
    /\ argsort_ties \in {"by_index", "reversed"}
    /\ last = NoCall
    /\ pinned = Unpinned("off")

InitHistory ==
    /\ documents = <<>>
    /\ embeddings = None
    /\ vectorizer = Unfitted
    /\ argsort_ties \in {"by_index", "reversed"}
    /\ last = NoCall
    /\ pinned = Unpinned("armed")

AddDocuments(batch) ==
    /\ Len(documents) + Len(batch) <= MaxDocs
    /\ pinned.mode # "set"
    /\ \E r \in {AddDocumentsTo(Self, batch)} :
           /\ documents' = r.self.documents
           /\ embeddings' = r.self.embeddings
           /\ vectorizer' = r.self.vectorizer
           /\ last' = IF pinned.mode # "off" THEN last
                      ELSE [NoCall EXCEPT !.op = "add_documents",
                                          !.batch = batch,
                                          !.raised = r.raised,
                                          !.error = r.error,
                                          !.before = Self]
    /\ UNCHANGED <<pinned, argsort_ties>>

RetrieveCall(query, k) ==
    /\ \E r \in {Retrieve(Self, query, k, argsort_ties)} :
           /\ documents' = r.self.documents
           /\ embeddings' = r.self.embeddings
           /\ vectorizer' = r.self.vectorizer
           /\ last' = IF pinned.mode # "off" THEN last
                      ELSE [op |-> "retrieve", batch |-> <<>>,
                            query |-> query, k |-> k, raised |-> r.raised,
                            error |-> r.error, results |-> r.results,
                            similarities |-> r.similarities,
                            boosted |-> r.boosted,
                            vectorized |-> r.vectorized, before |-> Self]
           /\ pinned' = Pin(query, k, r)
    /\ UNCHANGED argsort_ties

Next ==
    \/ \E batch \in Batches : AddDocuments(batch)
    \/ \E query \in Queries, k \in 0..MaxK : RetrieveCall(query, k)

Spec == Init /\ [][Next]_vars

SpecHistory == InitHistory /\ [][Next]_vars

(***************************************************************************)
(* Properties.                                                             *)
(***************************************************************************)
Added == last.op = "add_documents"

Retrieved == last.op = "retrieve"

Returned == last.op = "retrieve" /\ ~last.raised

\* the store indices of the documents with a positive boosted score
Positive == {i \in 1..Len(last.boosted) : last.boosted[i] > 0}

Descending ==
    \A i, j \in 1..Len(last.results) :
        i < j => last.results[i].score >= last.results[j].score

\* which boost terms each document content and each query contains
DocHas ==
    [t \in DocTexts |->
        [term \in Range(states) \cup Range(health_terms)
                      \cup Range(location_terms) |->
            Contains(LowerDoc[t], term)]]

QueryHas ==
    [q \in Queries |->
        [term \in Range(states) \cup Range(health_terms)
                      \cup Range(location_terms) |->
            Contains(LowerQuery[q], term)]]

\* C1: after an add_documents call whose fit completed, the embedding
\* matrix has one row per stored document and row i is the vector of the
\* i-th stored document in a fit over the whole store.
C1_MatrixAlignedWithStore ==
    Added /\ ~last.raised =>
        /\ Len(embeddings.rows) = Len(documents)
        /\ embeddings.rows = FitTransform(Unfitted, documents).X

\* C2: retrieve(query, k) returns at most k pairs, for every k >= 0, and
\* every returned pair has a boosted score greater than 0.
C2_AtMostKPositive ==
    Returned =>
        /\ Len(last.results) <= last.k
        /\ \A i \in 1..Len(last.results) : last.results[i].score > 0

\* C3: retrieve never raises, and every document it returns is a member of
\* the store.
C3_RetrieveNeverRaises ==
    Retrieved =>
        /\ ~last.raised
        /\ \A i \in 1..Len(last.results) :
               /\ last.results[i].idx \in 1..Len(documents)
               /\ documents[last.results[i].idx] = last.results[i].doc

\* C4 as stated: the returned pairs are in descending boosted-score order,
\* and two returned documents with equal boosted score appear lower store
\* index first.
C4_DescendingTiesByIndex ==
    Returned =>
        /\ Descending
        /\ \A i, j \in 1..Len(last.results) :
               i < j /\ last.results[i].score = last.results[j].score
                   => last.results[i].idx < last.results[j].idx

\* C4 as amended: the returned pairs are in descending boosted-score order,
\* and where argsort keeps equal scores in index order, two returned
\* documents with equal boosted score appear higher store index first.
C4_DescendingTiesReversed ==
    Returned =>
        /\ Descending
        /\ \A i, j \in 1..Len(last.results) :
               /\ i < j
               /\ last.results[i].score = last.results[j].score
               /\ argsort_ties = "by_index"
               => last.results[i].idx > last.results[j].idx

\* C4 witness: a retrieve returned two documents with equal boosted score
\* and a third with a different one.
C4_TieReturned ==
    /\ Returned
    /\ argsort_ties = "by_index"
    /\ \E i, j, l \in 1..Len(last.results) :
           /\ i < j
           /\ last.results[i].score = last.results[j].score
           /\ last.results[l].score # last.results[i].score

\* document i contains state term s of the query, document j does not, and
\* their raw cosine scores are equal
StateTermApart(i, j, s) ==
    /\ QueryHas[last.query][states[s]]
    /\ DocHas[last.before.documents[i]][states[s]]
    /\ ~DocHas[last.before.documents[j]][states[s]]
    /\ last.similarities[i] = last.similarities[j]

\* documents i and j meet every other boost condition of the query alike
AgreeApartFrom(i, j, s) ==
    LET d1 == last.before.documents[i]
        d2 == last.before.documents[j]
        q == last.query
    IN  /\ \A u \in 1..Len(states) :
               u # s /\ QueryHas[q][states[u]] =>
                   DocHas[d1][states[u]] = DocHas[d2][states[u]]
        /\ \A h \in 1..Len(health_terms) :
               QueryHas[q][health_terms[h]] =>
                   DocHas[d1][health_terms[h]] = DocHas[d2][health_terms[h]]
        /\ (\E l \in 1..Len(location_terms) : QueryHas[q][location_terms[l]])
               => ((\E l \in 1..Len(location_terms) :
                        DocHas[d1][location_terms[l]])
                   = (\E l \in 1..Len(location_terms) :
                        DocHas[d2][location_terms[l]]))
        /\ QueryHas[q]["county"] => DocHas[d1]["county"] = DocHas[d2]["county"]

\* C5 as stated: a document that contains a state term of the query gets a
\* strictly greater boosted score than a document that does not contain it
\* and has the same raw cosine score, whatever other terms they contain.
C5_BoostMonotone ==
    Returned /\ last.vectorized =>
        \A i, j \in 1..Len(last.before.documents), s \in 1..Len(states) :
            StateTermApart(i, j, s) => last.boosted[i] > last.boosted[j]

\* C5 as amended: the same, for two documents whose equal raw cosine score
\* is positive and that meet every other boost condition of the query
\* alike (the other state terms, the health terms, the location test and
\* the county test).
C5_BoostMonotoneOtherwiseAlike ==
    Returned /\ last.vectorized =>
        \A i, j \in 1..Len(last.before.documents), s \in 1..Len(states) :
            /\ StateTermApart(i, j, s)
            /\ last.similarities[i] > 0
            /\ AgreeApartFrom(i, j, s)
            => last.boosted[i] > last.boosted[j]

\* C5 witness: a retrieve scored two such documents.
C5_AlikePairScored ==
    /\ Returned /\ last.vectorized
    /\ \E i, j \in 1..Len(last.before.documents), s \in 1..Len(states) :
           /\ StateTermApart(i, j, s)
           /\ last.similarities[i] > 0
           /\ AgreeApartFrom(i, j, s)

\* C6: add_documents with an empty sequence completes without raising and
\* leaves the document store unchanged, in every state.
C6_EmptyBatchTolerated ==
    Added /\ last.batch = <<>> =>
        ~last.raised /\ documents = last.before.documents

\* C7: with an empty store or no embedding matrix, retrieve returns the
\* empty sequence without raising and without calling the vectorizer.
C7_EmptyIndexReturnsEmpty ==
    /\ Retrieved
    /\ last.before.documents = <<>> \/ ~last.before.embeddings.exists
    => ~last.raised /\ last.results = <<>> /\ ~last.vectorized

\* C7 witness: retrieve was called on a non-empty store for which no fit
\* has completed.
C7_RetrievedBeforeAnyFit ==
    /\ Retrieved
    /\ last.before.documents # <<>>
    /\ ~last.before.embeddings.exists

C9_RetrieveReadOnlyDeterministic ==
    pinned.mode = "set" =>
        /\ Self = pinned.self
        /\ pinned.again = pinned.first

\* C9 witness: a retrieve that returned documents was repeated after a
\* different retrieve.
C9_RepeatedAfterOther ==
    /\ pinned.mode = "set"
    /\ pinned.phase = "again"
    /\ pinned.first.results # <<>>

\* C10: an add_documents call whose fit raises leaves the document store
\* and the embedding matrix as they were before the call.
C10_FailedAddLeavesStore ==
    Added /\ last.raised =>
        /\ documents = last.before.documents
        /\ embeddings = last.before.embeddings

====
